---- MODULE Spec2Model ----
(***************************************************************************)
(* State-machine model of schotter (src/src/main.rs): a grid of stones     *)
(* animated by the per-tick `update` callback, the frame recorder that     *)
(* runs at the end of `update`, and the `key_pressed` command handler.     *)
(*                                                                         *)
(* Real numbers (the f32 fields, read in exact arithmetic) are rationals   *)
(* <<n, d>> in lowest terms with d > 0.  Angles are counted in units of    *)
(* PI/4 radians, so the draw random_range(-PI/4, PI/4) is a value of       *)
(* [-1, 1) and abs_normalize(rotation, PI/4) is the absolute value.        *)
(***************************************************************************)
EXTENDS Integers, FiniteSets, TLC

(***************************************************************************)
(* The grid is the program's.                                              *)
(***************************************************************************)
ROWS == 22
COLS == 12

(***************************************************************************)
(* Bounds of the model.  The program runs FRAMES = 60 * 30 = 1800 ticks,   *)
(* draws segment lengths from [50, 300) and caps the frame index at 9999.  *)
(* The model keeps CYCLES_LO >= 1 and FRAMES - FRAMES \div 2 >=             *)
(* 2 * CYCLES_HI - 2 at a size TLC can enumerate, and takes the cap        *)
(* MAX_FRAME below FRAMES / 2 so that a run reaches the guard on the frame *)
(* index, which the 901 frames of a run of the program stay below.         *)
(* MaxKeys bounds the key events of a run.                                 *)
(***************************************************************************)
FRAMES == 10
CYCLES_LO == 1
CYCLES_HI == 3
MAX_FRAME == 3
MaxKeys == 2

(***************************************************************************)
(* Exact rational arithmetic.                                              *)
(***************************************************************************)
Abs(n) == IF n < 0 THEN -n ELSE n

\* Euclid's algorithm, as a function so that its arguments are values
GcdOf[a \in Nat, b \in Nat] == IF b = 0 THEN a ELSE GcdOf[b, a % b]
Gcd(a, b) == GcdOf[a, b]

\* n / d in lowest terms with a positive denominator
RatOf[n \in Int, d \in Int] ==
    LET s == IF d < 0 THEN -1 ELSE 1
        g == Gcd(Abs(n), Abs(d))
    IN  <<(s * n) \div g, (s * d) \div g>>
Rat(n, d) == RatOf[n, d]

Zero == <<0, 1>>
RAdd(a, b) == Rat(a[1] * b[2] + b[1] * a[2], a[2] * b[2])
RSub(a, b) == Rat(a[1] * b[2] - b[1] * a[2], a[2] * b[2])
RGt(a, b) == a[1] * b[2] > b[1] * a[2]
RLe(a, b) == a[1] * b[2] <= b[1] * a[2]
RMax(a, b) == IF RGt(a, b) THEN a ELSE b
RAbs(a) == <<Abs(a[1]), a[2]>>

(***************************************************************************)
(* The values the random source returns in the model.                     *)
(***************************************************************************)
\* random_f32(): a value of [0, 1)
MotionDraws == {Rat(0, 1), Rat(1, 2)}
\* random_range(-0.5, 0.5): a value of [-0.5, 0.5)
DispDraws == {Rat(-1, 2), Rat(1, 4)}
\* random_range(-PI/4, PI/4) in units of PI/4: a value of [-1, 1)
RotDraws == {Rat(-1, 1)}
\* the range taken with its upper end
CycleDrawsInclusive == CYCLES_LO .. CYCLES_HI

\* random_range(50, 300): an integer of [CYCLES_LO, CYCLES_HI)
CycleDraws == CYCLES_LO .. (CYCLES_HI - 1)

Draws == [r : MotionDraws, ux : DispDraws, uy : DispDraws, urot : RotDraws,
          cycles : CycleDraws]

VARIABLES
    elapsed_frames,  \* app.elapsed_frames(): the tick the next update sees
    gravel,          \* Model.gravel: stone index -> Stone
    motion,          \* Model.motion
    disp_adj,        \* Model.disp_adj
    rot_adj,         \* Model.rot_adj
    recording,       \* Model.recording
    cur_frame,       \* Model.cur_frame
    status,          \* "running", "exited" (exit(0)) or "panicked"
    capture,         \* the capture the latest handler asked for
    event,           \* the latest handler run: "update" or the key pressed
    keys,            \* number of key events handled so far
    sampled,         \* history: each stone's latest resample
    settled,         \* history: stone finished an active segment sampled
                     \*          at or after the midpoint tick
    toggled,         \* history: a toggle-recording command was handled
    session,         \* history: frame captures requested in this recording session
    dir_ensured,     \* history: create_dir has returned Ok or AlreadyExists
    dir_result,      \* history: what the latest fs::create_dir returned
    adj_max          \* history: the largest value disp_adj or rot_adj has had

vars == <<elapsed_frames, gravel, motion, disp_adj, rot_adj, recording,
          cur_frame, status, capture, event, keys, sampled, settled,
          toggled, session, dir_ensured, dir_result, adj_max>>

(***************************************************************************)
(* Stones                                                                  *)
(***************************************************************************)
\* the indices of model.gravel
Grid == 0 .. (ROWS * COLS - 1)

\* The body of `for stone in &mut model.gravel` reads and writes the stone at
\* hand and reads fields of the Model only, so every stone runs the same
\* state machine beside the others.  A behaviour follows one stone of the
\* field, picked at the start among Watched: the first stone pushed (x = 0,
\* y = 0) and the last (x = COLS - 1, y = ROWS - 1).
Watched == {0, ROWS * COLS - 1}

\* the stones a behaviour follows
Stones == DOMAIN gravel

\* Stone::new(x, y)
StoneNew(x, y) ==
    [x |-> x, y |-> y,
     x_offset |-> Zero, y_offset |-> Zero, rotation |-> Zero,
     x_velocity |-> Zero, y_velocity |-> Zero, rot_velocity |-> Zero,
     cycles |-> 0]

\* the loops run with their upper ends included
InitGravelInclusive ==
    [i \in 0 .. ((ROWS + 1) * (COLS + 1) - 1) |->
        StoneNew(i % (COLS + 1), i \div (COLS + 1))]

\* the nested loops of model(): y outer, x inner, pushed in that order
InitGravel == [i \in Grid |-> StoneNew(i % COLS, i \div COLS)]

NoSample == [kind |-> "none", tick |-> 0, new_cycles |-> 0,
             new_x |-> Zero, new_y |-> Zero, new_rot |-> Zero]

NoCapture == [kind |-> "none", index |-> 0]

\* FRAMES as u64 / 2
MidTick == FRAMES \div 2

\* the transition applied on the midpoint tick alone
MidpointOnce(ef) == ef = MidTick

\* the transition starting one tick late
MidpointLate(ef) == ef > MidTick

\* elapsed_frames >= FRAMES as u64 / 2
Midpoint(ef) == ef >= MidTick

\* random_f32() > model.motion
IdleDraw(r, m) == RGt(r, m)

\* a target drawn from twice the range
TargetDoubled(stone, adj, u) ==
    Rat(2 * stone.y * adj[1] * u[1], ROWS * adj[2] * u[2])

\* a target that leaves the depth factor out
TargetNoDepth(stone, adj, u) == Rat(adj[1] * u[1], adj[2] * u[2])

\* a target that ignores the adjustment
TargetNoAdj(stone, adj, u) == Rat(stone.y * u[1], ROWS * u[2])

\* (stone.y / ROWS) * adj * random_range(..): disp_factor or rot_factor
\* times the draw u
Target(stone, adj, u) ==
    Rat(stone.y * adj[1] * u[1], ROWS * adj[2] * u[2])

\* a fixed per-cycle delta: the target over the cycles, whatever the offset
VelocityFixed(new, cur, new_cycles) == Rat(new[1], new[2] * new_cycles)

\* (new - current) / new_cycles
Velocity(new, cur, new_cycles) ==
    Rat(new[1] * cur[2] - cur[1] * new[2], new[2] * cur[2] * new_cycles)

\* the stone.cycles == 0 branch of update() on tick ef with the draws d:
\* the stone it leaves, and the history of what was sampled
Resample(stone, d, m, da, ra, ef) ==
    IF IdleDraw(d.r, m)
    THEN [stone |-> [stone EXCEPT !.x_velocity = Zero, !.y_velocity = Zero,
                                  !.rot_velocity = Zero, !.cycles = d.cycles],
          sample |-> [kind |-> "idle", tick |-> ef, new_cycles |-> d.cycles,
                      new_x |-> Zero, new_y |-> Zero, new_rot |-> Zero]]
    ELSE LET new_x == Target(stone, da, d.ux)
             new_y == Target(stone, da, d.uy)
             new_rot == Target(stone, ra, d.urot)
             new_cycles == d.cycles
         IN  [stone |-> [stone EXCEPT
                !.x_velocity = Velocity(new_x, stone.x_offset, new_cycles),
                !.y_velocity = Velocity(new_y, stone.y_offset, new_cycles),
                !.rot_velocity = Velocity(new_rot, stone.rotation, new_cycles),
                !.cycles = new_cycles],
              sample |-> [kind |-> "active", tick |-> ef,
                          new_cycles |-> new_cycles, new_x |-> new_x,
                          new_y |-> new_y, new_rot |-> new_rot]]

\* the else branch of update(): one integration step
Integrate(stone) ==
    [stone EXCEPT !.x_offset = RAdd(stone.x_offset, stone.x_velocity),
                  !.y_offset = RAdd(stone.y_offset, stone.y_velocity),
                  !.rotation = RAdd(stone.rotation, stone.rot_velocity),
                  !.cycles = stone.cycles - 1]

\* what the random source can make of one resample of the stone on tick ef
Outcomes(stone, m, da, ra, ef) ==
    {Resample(stone, d, m, da, ra, ef) : d \in Draws}

\* a pass that also puts a stone in flight back to rest once the displacement
\* adjustment is 0
StoneStepsSnap(i, m, da, ra, ef) ==
    IF gravel[i].cycles = 0
    THEN Outcomes(gravel[i], m, da, ra, ef)
    ELSE IF da = Zero
         THEN {[stone |-> [Integrate(gravel[i]) EXCEPT !.x_offset = Zero,
                                                       !.y_offset = Zero],
                sample |-> sampled[i]]}
         ELSE {[stone |-> Integrate(gravel[i]), sample |-> sampled[i]]}

\* one pass of `for stone in &mut model.gravel` over a stone: a resample
\* when its counter is 0, an integration step otherwise
StoneSteps(i, m, da, ra, ef) ==
    IF gravel[i].cycles = 0
    THEN Outcomes(gravel[i], m, da, ra, ef)
    ELSE {[stone |-> Integrate(gravel[i]), sample |-> sampled[i]]}

\* the loop over the stones of S, in the order of the Vec: every way the
\* draws can come out
RECURSIVE FieldSteps(_, _, _, _, _)
FieldSteps(S, m, da, ra, ef) ==
    IF S = {} THEN {<<>>}
    ELSE LET i == CHOOSE j \in S : \A k \in S : j <= k
         IN  {(i :> o) @@ p : o \in StoneSteps(i, m, da, ra, ef),
                              p \in FieldSteps(S \ {i}, m, da, ra, ef)}

(***************************************************************************)
(* view(): the hue of a stone                                              *)
(***************************************************************************)
Half == Rat(1, 2)

\* abs_normalize(orig, max): orig.abs() / max
AbsNormalize(orig, max) == Rat(Abs(orig[1]) * max[2], orig[2] * max[1])

\* the sum of the five normalized deviations; PI / 4 is 1 in the unit of
\* the angles
Basis(stone) ==
    RAdd(RAdd(RAdd(RAdd(AbsNormalize(Rat(stone.x, 1), Rat(COLS, 1)),
                        AbsNormalize(Rat(stone.y, 1), Rat(ROWS, 1))),
                   AbsNormalize(stone.rotation, Rat(1, 1))),
              AbsNormalize(stone.x_offset, Half)),
         AbsNormalize(stone.y_offset, Half))

\* the sum taken for the hue
HueOfSum(stone) == Basis(stone)

\* basis / 5.0
Hue(stone) == Rat(Basis(stone)[1], Basis(stone)[2] * 5)

(***************************************************************************)
(* Recorder                                                                *)
(***************************************************************************)
\* a capture on every tick of a recording
CaptureDueAnyTick(rec, ef) == rec

\* model.recording && elapsed_frames % 2 == 0
CaptureDue(rec, ef) == rec /\ ef % 2 = 0

\* the guard tripping on the cap itself
RolloverAtCap(frame) == frame >= MAX_FRAME

\* model.cur_frame > 9999
Rollover(frame) == frame > MAX_FRAME

\* frames numbered from 0
FrameCaptureZeroBased(frame) == [kind |-> "frame", index |-> frame - 1]

\* the request for "{frames_dir}/shotter{cur_frame:>04}.png"; it is handed to
\* the window when app.window(main_window) is Some and dropped otherwise
FrameCapture(frame) == [kind |-> "frame", index |-> frame]

\* the exit test tripping one tick late
ExitDueLate(ef) == ef > FRAMES

\* elapsed_frames >= FRAMES: the tick that calls exit(0)
ExitDue(ef) == ef >= FRAMES

(***************************************************************************)
(* update(): one tick                                                      *)
(***************************************************************************)
Update ==
    /\ status = "running"
    \* LoopMode::loop_ntimes(FRAMES + 1)
    /\ elapsed_frames < FRAMES + 1
    /\ event' = "update"
    /\ LET ef == elapsed_frames
           da == IF Midpoint(ef) THEN Zero ELSE disp_adj
           ra == IF Midpoint(ef) THEN Zero ELSE rot_adj
       IN  /\ disp_adj' = da
           /\ rot_adj' = ra
           /\ \E out \in FieldSteps(Stones, motion, da, ra, ef) :
                /\ gravel' = [i \in Stones |-> out[i].stone]
                /\ sampled' = [i \in Stones |-> out[i].sample]
           /\ settled' = [i \in Stones |->
                            \/ settled[i]
                            \/ /\ gravel[i].cycles = 1
                               /\ sampled[i].kind = "active"
                               /\ sampled[i].tick >= MidTick]
           /\ IF CaptureDue(recording, ef)
              THEN /\ cur_frame' = cur_frame + 1
                   /\ IF Rollover(cur_frame + 1)
                      THEN /\ recording' = FALSE
                           /\ capture' = NoCapture
                           /\ session' = session
                      ELSE /\ recording' = recording
                           /\ session' = session + 1
                           /\ capture' = FrameCapture(cur_frame + 1)
              ELSE /\ cur_frame' = cur_frame
                   /\ recording' = recording
                   /\ capture' = NoCapture
                   /\ session' = session
           /\ IF ExitDue(ef)
              THEN /\ status' = "exited"
                   /\ elapsed_frames' = ef
              ELSE /\ status' = status
                   /\ elapsed_frames' = ef + 1
    /\ UNCHANGED <<motion, keys, toggled, dir_ensured, dir_result, adj_max>>

(***************************************************************************)
(* key_pressed(): one command                                              *)
(***************************************************************************)
Step == Rat(1, 10)

\* model.disp_adj += 0.1 / model.rot_adj += 0.1
Increase(adj) == RAdd(adj, Step)

\* a decrease with no floor
DecreaseNoFloor(adj) == RSub(adj, Step)

\* if adj > 0.0 { adj -= 0.1 }
Decrease(adj) == IF RGt(adj, Zero) THEN RSub(adj, Step) ELSE adj

KeyGuard == status = "running" /\ keys < MaxKeys

\* what fs::create_dir(&model.frames_dir) can return: Ok(()), or an Err of
\* kind AlreadyExists, or an Err of any other kind
CreateDirResults == {"Ok", "AlreadyExists", "Other"}

\* a handler that takes every Err for fatal
FatalOnAnyErr(res) == res # "Ok"

\* the closure of unwrap_or_else panics: error.kind() != AlreadyExists
Fatal(res) == res \notin {"Ok", "AlreadyExists"}

\* Key::R
KeyR ==
    /\ KeyGuard
    /\ keys' = keys + 1
    /\ event' = "R"
    /\ toggled' = TRUE
    /\ capture' = NoCapture
    /\ IF recording
       THEN /\ recording' = FALSE
            /\ UNCHANGED <<cur_frame, status, session, dir_ensured,
                           dir_result>>
       ELSE \E res \in CreateDirResults :
              /\ dir_result' = res
              /\ IF Fatal(res)
                 THEN /\ status' = "panicked"
                      /\ UNCHANGED <<recording, cur_frame, session,
                                     dir_ensured>>
                 ELSE /\ recording' = TRUE
                      /\ cur_frame' = 0
                      /\ session' = 0
                      /\ dir_ensured' = TRUE
                      /\ status' = status
    /\ UNCHANGED <<elapsed_frames, gravel, motion, disp_adj, rot_adj, sampled,
                   settled, adj_max>>

\* a snapshot that takes the next index of the recording
KeySCounted ==
    /\ KeyGuard
    /\ keys' = keys + 1
    /\ event' = "S"
    /\ cur_frame' = cur_frame + 1
    /\ capture' = [kind |-> "snapshot", index |-> cur_frame + 1]
    /\ UNCHANGED <<elapsed_frames, gravel, motion, disp_adj, rot_adj, recording,
                   status, sampled, settled, toggled, session, dir_ensured,
                   dir_result, adj_max>>

\* Key::S
KeyS ==
    /\ KeyGuard
    /\ keys' = keys + 1
    /\ event' = "S"
    /\ capture' = [kind |-> "snapshot", index |-> 0]
    /\ UNCHANGED <<elapsed_frames, gravel, motion, disp_adj, rot_adj, recording,
                   cur_frame, status, sampled, settled, toggled, session,
                   dir_ensured, dir_result, adj_max>>

\* Key::Up
KeyUp ==
    /\ KeyGuard
    /\ keys' = keys + 1
    /\ event' = "Up"
    /\ disp_adj' = Increase(disp_adj)
    /\ adj_max' = RMax(adj_max, Increase(disp_adj))
    /\ capture' = NoCapture
    /\ UNCHANGED <<elapsed_frames, gravel, motion, rot_adj, recording,
                   cur_frame, status, sampled, settled, toggled, session,
                   dir_ensured, dir_result>>

\* Key::Down
KeyDown ==
    /\ KeyGuard
    /\ keys' = keys + 1
    /\ event' = "Down"
    /\ disp_adj' = Decrease(disp_adj)
    /\ capture' = NoCapture
    /\ UNCHANGED <<elapsed_frames, gravel, motion, rot_adj, recording,
                   cur_frame, status, sampled, settled, toggled, session,
                   dir_ensured, dir_result, adj_max>>

\* Key::Right
KeyRight ==
    /\ KeyGuard
    /\ keys' = keys + 1
    /\ event' = "Right"
    /\ rot_adj' = Increase(rot_adj)
    /\ adj_max' = RMax(adj_max, Increase(rot_adj))
    /\ capture' = NoCapture
    /\ UNCHANGED <<elapsed_frames, gravel, motion, disp_adj, recording,
                   cur_frame, status, sampled, settled, toggled, session,
                   dir_ensured, dir_result>>

\* Key::Left
KeyLeft ==
    /\ KeyGuard
    /\ keys' = keys + 1
    /\ event' = "Left"
    /\ rot_adj' = Decrease(rot_adj)
    /\ capture' = NoCapture
    /\ UNCHANGED <<elapsed_frames, gravel, motion, disp_adj, recording,
                   cur_frame, status, sampled, settled, toggled, session,
                   dir_ensured, dir_result, adj_max>>

\* _ => {}
KeyOther ==
    /\ KeyGuard
    /\ keys' = keys + 1
    /\ event' = "Other"
    /\ capture' = NoCapture
    /\ UNCHANGED <<elapsed_frames, gravel, motion, disp_adj, rot_adj, recording,
                   cur_frame, status, sampled, settled, toggled, session,
                   dir_ensured, dir_result, adj_max>>

(***************************************************************************)
(* Specifications                                                          *)
(***************************************************************************)
\* the Model built by model(): motion = disp_adj = rot_adj = 1.0,
\* recording = true, cur_frame = 0
InitWith(m) ==
    /\ elapsed_frames = 0
    /\ \E w \in Watched :
         /\ gravel = [i \in {w} |-> InitGravel[i]]
         /\ sampled = [i \in {w} |-> NoSample]
         /\ settled = [i \in {w} |-> FALSE]
    /\ motion = m
    /\ disp_adj = Rat(1, 1)
    /\ rot_adj = Rat(1, 1)
    /\ recording = TRUE
    /\ cur_frame = 0
    /\ status = "running"
    /\ capture = NoCapture
    /\ event = "init"
    /\ keys = 0
    /\ toggled = FALSE
    /\ session = 0
    /\ dir_ensured = FALSE
    /\ dir_result = "none"
    /\ adj_max = Rat(1, 1)

Init == InitWith(Rat(1, 1))

Next ==
    \/ Update
    \/ KeyR
    \/ KeyS
    \/ KeyUp
    \/ KeyDown
    \/ KeyRight
    \/ KeyLeft
    \/ KeyOther

Spec == Init /\ [][Next]_vars

\* the same program started with motion_probability = 0
InitIdle == InitWith(Zero)

SpecIdle == InitIdle /\ [][Next]_vars

\* the event loop of nannou::app(..).run() calls update once per frame for
\* as long as LoopMode::loop_ntimes(FRAMES + 1) has updates left
FairSpec == Spec /\ WF_vars(Update)

(***************************************************************************)
(* Properties                                                              *)
(***************************************************************************)
\* the number of updates that have run to their end
Now == IF status = "exited" THEN elapsed_frames + 1 ELSE elapsed_frames

Rest(i) ==
    /\ gravel[i].x_offset = Zero
    /\ gravel[i].y_offset = Zero
    /\ gravel[i].rotation = Zero

\* C1 (exact arrival): a stone that resampled an active segment on tick t
\* with target (tx, ty, tr) and new_cycles = k counts its cycles down by one
\* per tick from k, so no resample comes in between, and after tick t + k
\* its offsets and rotation are exactly the target and its counter is 0.
ExactArrival ==
    \A i \in Stones :
        sampled[i].kind = "active" =>
            LET arrival == sampled[i].tick + 1 + sampled[i].new_cycles
            IN  /\ gravel[i].cycles = arrival - Now
                /\ Now = arrival =>
                       /\ gravel[i].x_offset = sampled[i].new_x
                       /\ gravel[i].y_offset = sampled[i].new_y
                       /\ gravel[i].rotation = sampled[i].new_rot
                       /\ gravel[i].cycles = 0

\* a stone away from rest has just finished a later segment of two ticks or
\* more at a target other than where it started
ExactArrivalWitness ==
    \E i \in Stones :
        /\ sampled[i].kind = "active"
        /\ sampled[i].tick > 0
        /\ sampled[i].new_cycles >= 2
        /\ Now = sampled[i].tick + 1 + sampled[i].new_cycles
        /\ gravel[i].x_velocity # Zero
        /\ gravel[i].rot_velocity # Zero
        /\ gravel[i].x_offset = sampled[i].new_x
        /\ gravel[i].x_offset # Zero

\* C2 (settle, safety): every target sampled on a tick at or after the
\* midpoint tick is exactly (0, 0, 0), whatever commands came in between.
SettleTargets ==
    \A i \in Stones :
        (sampled[i].kind = "active" /\ sampled[i].tick >= FRAMES \div 2) =>
            /\ sampled[i].new_x = Zero
            /\ sampled[i].new_y = Zero
            /\ sampled[i].new_rot = Zero

\* a stone of a row that moves has resampled on the latest tick, after the
\* midpoint tick and after MaxKeys commands other than toggle-recording
SettleTargetsWitness ==
    \E i \in Stones :
        /\ gravel[i].y > 0
        /\ sampled[i].kind = "active"
        /\ sampled[i].tick > FRAMES \div 2
        /\ sampled[i].tick + 1 = Now
        /\ event = "update"
        /\ keys = MaxKeys
        /\ ~toggled

\* C3 (settle, convergence): a stone that has finished an active segment
\* sampled at or after the midpoint tick is at offset (0, 0) and rotation 0
\* from then on, and when the process exits every stone has done so.
SettleConvergence ==
    /\ \A i \in Stones : settled[i] => Rest(i)
    /\ status = "exited" => \A i \in Stones : settled[i]

\* the run has ended, after commands, with a stone of a moving row settled
\* by a segment sampled as late as the bounds allow
SettleConvergenceWitness ==
    /\ status = "exited"
    /\ keys > 0
    /\ \E i \in Stones :
         /\ gravel[i].y > 0
         /\ settled[i]
         /\ Rest(i)
         /\ sampled[i].tick > FRAMES \div 2 + CYCLES_LO

\* C4: cycles_remaining is 0 at the start and lies in 0 .. CYCLES_HI - 1,
\* so is never negative, in every state; a step
\* leaves it alone, sets it from 0 to a value of [CYCLES_LO, CYCLES_HI), or
\* takes exactly 1 off a value above 0.
CyclesCounter ==
    /\ \A i \in Stones : gravel[i].cycles = 0
    /\ [](\A i \in Stones : gravel[i].cycles \in 0 .. (CYCLES_HI - 1))
    /\ [][\A i \in Stones :
            \/ gravel'[i].cycles = gravel[i].cycles
            \/ /\ gravel[i].cycles = 0
               /\ gravel'[i].cycles \in CYCLES_LO .. (CYCLES_HI - 1)
            \/ /\ gravel[i].cycles > 0
               /\ gravel'[i].cycles = gravel[i].cycles - 1]_vars

\* a stone has counted a segment of the longest length down to 0
CyclesCounterWitness ==
    \E i \in Stones :
        /\ sampled[i].new_cycles = CYCLES_HI - 1
        /\ sampled[i].tick > 0
        /\ gravel[i].cycles = 0

Min(a, b) == IF a <= b THEN a ELSE b

FrameCountClaimed ==
    ~toggled => cur_frame = Min(MAX_FRAME, Now \div 2)

\* C6 (frame count, amended): with no toggle-recording command, after T
\* ticks frame_index is min(MAX_FRAME + 1, ceil(T / 2)), and recording is
\* off exactly from the tick that takes frame_index past MAX_FRAME.
FrameCount ==
    ~toggled =>
        /\ cur_frame = Min(MAX_FRAME + 1, (Now + 1) \div 2)
        /\ recording <=> cur_frame <= MAX_FRAME

\* a whole run with no toggle has ended with recording stopped by the guard
FrameCountWitness ==
    /\ ~toggled
    /\ status = "exited"
    /\ ~recording
    /\ cur_frame = MAX_FRAME + 1
    /\ keys > 0

\* C7 (frame numbering): the n-th recorded-frame capture requested in a
\* recording session carries index n, and every index is in 1 .. MAX_FRAME.
FrameNumbering ==
    capture.kind = "frame" =>
        /\ capture.index = session
        /\ capture.index \in 1 .. MAX_FRAME

\* the second frame of a session started by an Idle -> Recording toggle
FrameNumberingWitness ==
    /\ capture.kind = "frame"
    /\ capture.index = 2
    /\ dir_ensured
    /\ elapsed_frames > 4

\* C8 (recorder stride): an update on a tick where recording is off or
\* tick_count is odd leaves frame_index and recording as they were and
\* requests no recorded-frame capture.
RecorderStride ==
    [][(event' = "update" /\ ~(recording /\ elapsed_frames % 2 = 0)) =>
           /\ cur_frame' = cur_frame
           /\ recording' = recording
           /\ capture'.kind # "frame"]_vars

\* the state an update leaves on an odd tick of a recording
RecorderStrideWitness ==
    /\ event = "update"
    /\ status = "running"
    /\ recording
    /\ elapsed_frames % 2 = 0
    /\ elapsed_frames > 0
    /\ cur_frame > 0
    /\ capture = NoCapture

\* C9 (adjustment floor): displacement_adjust and rotation_adjust are never
\* negative, and a decrease command at value 0 leaves the value at 0.
AdjustFloor ==
    /\ [](RLe(Zero, disp_adj) /\ RLe(Zero, rot_adj))
    /\ [][/\ (event' = "Down" /\ disp_adj = Zero) => disp_adj' = Zero
          /\ (event' = "Left" /\ rot_adj = Zero) => rot_adj' = Zero]_vars

\* a decrease command has just been handled at value 0
AdjustFloorWitness ==
    /\ event = "Down"
    /\ disp_adj = Zero
    /\ rot_adj = Step

\* C10 (adjustment writers, as claimed): an update on any tick but the
\* midpoint tick leaves displacement_adjust and rotation_adjust as they were.
AdjustOnceClaimed ==
    [][(event' = "update" /\ elapsed_frames # FRAMES \div 2) =>
           (disp_adj' = disp_adj /\ rot_adj' = rot_adj)]_vars

\* C10 (adjustment writers, amended): only the four increase/decrease
\* commands and the updates change the two values; an update before the
\* midpoint tick leaves both as they were, an update on the midpoint tick or
\* any later tick sets both to 0.
AdjustWriters ==
    [][/\ event' \in {"R", "S", "Other"} =>
             (disp_adj' = disp_adj /\ rot_adj' = rot_adj)
       /\ event' \in {"Up", "Down"} => rot_adj' = rot_adj
       /\ event' \in {"Right", "Left"} => disp_adj' = disp_adj
       /\ (event' = "update" /\ elapsed_frames < FRAMES \div 2) =>
             (disp_adj' = disp_adj /\ rot_adj' = rot_adj)
       /\ (event' = "update" /\ elapsed_frames >= FRAMES \div 2) =>
             (disp_adj' = Zero /\ rot_adj' = Zero)]_vars

\* an update later than the midpoint tick has just run, after MaxKeys
\* commands, and has left both values at 0
AdjustWritersWitness ==
    /\ event = "update"
    /\ elapsed_frames > FRAMES \div 2 + 1
    /\ keys = MaxKeys
    /\ disp_adj = Zero
    /\ rot_adj = Zero
    /\ \E i \in Stones : sampled[i].new_x # Zero

\* C11 (toggle-recording): handled while Idle, a create_dir that returns Ok
\* or AlreadyExists leaves the state Recording with frame_index 0 and one
\* that fails otherwise aborts the process, which is then never Recording;
\* handled while Recording, it sets Idle and leaves frame_index as it was.
ToggleRecording ==
    /\ [](status = "panicked" => (~recording /\ dir_result = "Other"))
    /\ [][event' = "R" =>
            IF recording
            THEN /\ ~recording'
                 /\ cur_frame' = cur_frame
                 /\ status' = status
                 /\ dir_result' = dir_result
            ELSE /\ dir_result' \in {"Ok", "AlreadyExists"} =>
                       (recording' /\ cur_frame' = 0 /\ status' = "running")
                 /\ dir_result' \notin {"Ok", "AlreadyExists"} =>
                       (~recording' /\ status' = "panicked")]_vars

\* a toggle handled while Idle, after some ticks of the start-up session,
\* has found the directory in place and started a recording at index 0
ToggleRecordingWitness ==
    /\ event = "R"
    /\ dir_result = "AlreadyExists"
    /\ recording
    /\ cur_frame = 0
    /\ elapsed_frames > 1
    /\ status = "running"

Damping ==
    \A i \in Stones :
        gravel[i].y = 0 =>
            /\ Rest(i)
            /\ gravel[i].x_velocity = Zero
            /\ gravel[i].y_velocity = Zero
            /\ gravel[i].rot_velocity = Zero
            /\ sampled[i].kind = "active" =>
                   /\ sampled[i].new_x = Zero
                   /\ sampled[i].new_y = Zero
                   /\ sampled[i].new_rot = Zero

\* a stone of row 0 has just sampled a second or later active segment,
\* before the midpoint, with both adjustments raised above 1
DampingWitness ==
    \E i \in Stones :
        /\ gravel[i].y = 0
        /\ sampled[i].kind = "active"
        /\ sampled[i].tick > 0
        /\ sampled[i].tick < FRAMES \div 2
        /\ sampled[i].tick + 1 = Now
        /\ RGt(disp_adj, Rat(1, 1))
        /\ RGt(rot_adj, Rat(1, 1))

\* C14 (grid construction and stability): the field built at start-up has
\* exactly ROWS * COLS stones, one for each pair (x, y) with 0 <= x < COLS
\* and 0 <= y < ROWS, each with zero offsets, rotation and velocities and
\* cycles_remaining = 0; the stones followed start as their stones of that
\* field, and no step changes which stones there are or a stone's grid_x
\* or grid_y.
GridStable ==
    /\ Cardinality(DOMAIN InitGravel) = ROWS * COLS
    /\ \A x \in 0 .. (COLS - 1), y \in 0 .. (ROWS - 1) :
          Cardinality({i \in DOMAIN InitGravel :
                          InitGravel[i].x = x /\ InitGravel[i].y = y}) = 1
    /\ \A i \in DOMAIN InitGravel :
          /\ InitGravel[i].x \in 0 .. (COLS - 1)
          /\ InitGravel[i].y \in 0 .. (ROWS - 1)
          /\ InitGravel[i].x_offset = Zero
          /\ InitGravel[i].y_offset = Zero
          /\ InitGravel[i].rotation = Zero
          /\ InitGravel[i].x_velocity = Zero
          /\ InitGravel[i].y_velocity = Zero
          /\ InitGravel[i].rot_velocity = Zero
          /\ InitGravel[i].cycles = 0
    /\ \A i \in Stones : i \in DOMAIN InitGravel /\ gravel[i] = InitGravel[i]
    /\ [][/\ DOMAIN gravel' = DOMAIN gravel
          /\ \A i \in Stones : /\ gravel'[i].x = gravel[i].x
                                /\ gravel'[i].y = gravel[i].y]_vars

\* the last stone of the field is away from rest after the midpoint and
\* after MaxKeys commands, still on its grid position
GridStableWitness ==
    /\ keys = MaxKeys
    /\ elapsed_frames > FRAMES \div 2
    /\ \E i \in Stones :
         /\ i = ROWS * COLS - 1
         /\ gravel[i].x = COLS - 1
         /\ gravel[i].y = ROWS - 1
         /\ gravel[i].x_offset # Zero
         /\ gravel[i].rotation # Zero

\* C15 (no instantaneous move): a command leaves every stone as it is, and
\* an update on a tick where a stone has cycles_remaining > 0 adds the
\* stored velocities to its offsets and rotation and leaves the velocities
\* as they were, whatever the adjustments are; the step that takes the
\* counter of an active segment to 0 ends at the target sampled when the
\* segment began.
NoInstantMove ==
    [][/\ event' \in {"Up", "Down", "Right", "Left"} => gravel' = gravel
       /\ event' = "update" =>
             \A i \in Stones :
                 gravel[i].cycles > 0 =>
                     /\ gravel'[i].x_offset =
                            RAdd(gravel[i].x_offset, gravel[i].x_velocity)
                     /\ gravel'[i].y_offset =
                            RAdd(gravel[i].y_offset, gravel[i].y_velocity)
                     /\ gravel'[i].rotation =
                            RAdd(gravel[i].rotation, gravel[i].rot_velocity)
                     /\ gravel'[i].x_velocity = gravel[i].x_velocity
                     /\ gravel'[i].y_velocity = gravel[i].y_velocity
                     /\ gravel'[i].rot_velocity = gravel[i].rot_velocity
                     /\ sampled'[i] = sampled[i]
                     /\ (gravel[i].cycles = 1 /\ sampled[i].kind = "active") =>
                            /\ gravel'[i].x_offset = sampled[i].new_x
                            /\ gravel'[i].y_offset = sampled[i].new_y
                            /\ gravel'[i].rotation = sampled[i].new_rot]_vars

\* a segment sampled before the midpoint with raised adjustments has ended
\* at its target, away from rest, on a tick after the midpoint tick has set
\* both adjustments to 0
NoInstantMoveWitness ==
    /\ event = "update"
    /\ disp_adj = Zero
    /\ rot_adj = Zero
    /\ RGt(adj_max, Rat(1, 1))
    /\ Now > FRAMES \div 2 + 1
    /\ \E i \in Stones :
         /\ sampled[i].kind = "active"
         /\ sampled[i].tick < FRAMES \div 2
         /\ Now = sampled[i].tick + 1 + sampled[i].new_cycles
         /\ sampled[i].new_x # Zero
         /\ gravel[i].x_offset = sampled[i].new_x
         /\ gravel[i].rotation = sampled[i].new_rot

\* C16 (frame of the commands): no command changes a field of a stone; the
\* snapshot command and an unbound key leave recording, frame_index and the
\* two adjustments as they were and request no recorded-frame capture.
CommandsFrame ==
    [][/\ event' # "update" => gravel' = gravel
       /\ event' \in {"S", "Other"} =>
             /\ recording' = recording
             /\ cur_frame' = cur_frame
             /\ disp_adj' = disp_adj
             /\ rot_adj' = rot_adj
             /\ session' = session
             /\ capture'.kind # "frame"]_vars

\* a snapshot has just been asked for during a recording that has frames,
\* with a stone in flight
CommandsFrameWitness ==
    /\ event = "S"
    /\ capture.kind = "snapshot"
    /\ recording
    /\ cur_frame > 1
    /\ \E i \in Stones : gravel[i].cycles > 0 /\ gravel[i].x_velocity # Zero

\* C17 (hue range, as claimed): in every reachable state the hue of every
\* stone lies in [0, 1].
HueInRange ==
    \A i \in Stones :
        RLe(Zero, Hue(gravel[i])) /\ RLe(Hue(gravel[i]), Rat(1, 1))

\* C17 (hue range, amended): the hue of every stone is at least 0 in every
\* reachable state, and at most 1 for as long as neither adjustment has
\* been above 1.
HueBounded ==
    \A i \in Stones :
        /\ RLe(Zero, Hue(gravel[i]))
        /\ RLe(adj_max, Rat(1, 1)) => RLe(Hue(gravel[i]), Rat(1, 1))

\* with the adjustments never above 1 and after commands, a stone of the
\* last row has a hue above 9/10: it has ended a segment at the far end
\* of all three ranges
HueBoundedWitness ==
    /\ adj_max = Rat(1, 1)
    /\ keys > 0
    /\ \E i \in Stones :
         /\ RGt(Hue(gravel[i]), Rat(9, 10))
         /\ gravel[i].cycles = 0
         /\ sampled[i].tick > 0

\* C18 (bounded walk): with A the largest value either adjustment has had
\* so far, every stone has |offset_x| <= 0.5 * A * grid_y / ROWS,
\* |offset_y| <= 0.5 * A * grid_y / ROWS and |rotation| <= (PI/4) * A *
\* grid_y / ROWS in every reachable state, in flight as at the end points.
BoundedWalk ==
    \A i \in Stones :
        LET reach == Rat(adj_max[1] * gravel[i].y, adj_max[2] * ROWS)
            half_reach == Rat(adj_max[1] * gravel[i].y, 2 * adj_max[2] * ROWS)
        IN  /\ RLe(RAbs(gravel[i].x_offset), half_reach)
            /\ RLe(RAbs(gravel[i].y_offset), half_reach)
            /\ RLe(RAbs(gravel[i].rotation), reach)

\* a stone is in flight between two targets away from rest, at neither of
\* them, in a run whose adjustments have been above 1
BoundedWalkWitness ==
    /\ RGt(adj_max, Rat(1, 1))
    /\ \E i \in Stones :
         /\ sampled[i].kind = "active"
         /\ sampled[i].tick > 0
         /\ gravel[i].cycles > 0
         /\ gravel[i].cycles < sampled[i].new_cycles
         /\ gravel[i].x_offset # Zero
         /\ gravel[i].x_offset # sampled[i].new_x
         /\ sampled[i].new_x # Zero
         /\ gravel[i].x_velocity # Zero

\* C19 (directory before capture, as claimed): whenever a recorded-frame
\* capture is requested, a create_dir of the output directory has returned
\* Ok or AlreadyExists earlier in the run.
DirBeforeCapture ==
    capture.kind = "frame" => dir_ensured

\* C20 (grace tick, as claimed): the update that exits the process requests
\* no recorded-frame capture, so every capture request is followed by a
\* further whole tick.
GraceTick ==
    status = "exited" => capture.kind # "frame"

====
